---- MODULE Spec2Model ----
(***************************************************************************)
(* Web Kiosk Screen (src/app.py): the in-memory screen registry `screens`, *)
(* the layout store `content_layouts`, and the Socket.IO / REST handlers   *)
(* that read and write them.  Each handler is one action, carrying all its *)
(* writes and all the messages it emits; the server runs a single eventlet *)
(* worker (src/gunicorn.conf.py:13-14).                                    *)
(***************************************************************************)
EXTENDS Integers, Sequences, FiniteSets, TLC

\* ------------------------------------------------------------------ bounds
\* Largest reading of the wall clock (datetime.now()).
MaxTime == 1
\* Number of get_default_layout() calls (each draws one uuid4 widget id).
MaxUuid == 4

\* ------------------------------------------------------------ input domains
\* Socket.IO session ids (request.sid).  The server never reuses a sid.
Transports == {"t1", "t2"}
\* Screen identities a client may put in a payload.
IDs == {"S1", "S2"}
\* data.get('screen_id') of a payload without the key: None (falsy).
NoId == ""
\* The 'name' a PUT /api/screens/<id> body may carry.
Names == {"Lobby"}
\* A PUT body without the key 'name'.
NoName == ""
\* The 'resolution' a register_screen payload may carry.
Resolutions == {"1920x1080"}
\* A resolution key missing from the register_screen payload.
NoResolution == ""

\* Documents.  k = "user": a layout written by the dashboard; "default": the
\* value of get_default_layout() whose clock widget got uuid n; "empty": the
\* JSON object {} (falsy in Python); "none": None / JSON null / a missing key.
D1 == [k |-> "user", n |-> 1]
D2 == [k |-> "user", n |-> 2]
UserDocs == {D1, D2}
EmptyDoc == [k |-> "empty", n |-> 0]
NoneDoc == [k |-> "none", n |-> 0]
PayloadDocs == UserDocs \cup {EmptyDoc, NoneDoc}

\* Python truthiness of the payload values, as tested by `if screen_id and layout`.
TruthyId(i) == i # NoId
\* A test of the layout that lets every payload through.
TruthyDoc_Always(d) == TRUE
TruthyDoc(d) == d \notin {EmptyDoc, NoneDoc}

\* get_default_layout(): one clock widget with a fresh uuid4 id, fixed background.
get_default_layout(u) == [k |-> "default", n |-> u]

\* f'Screen {screen_id[:8]}' (the model's identities are shorter than 8 characters).
DefaultName(screen_id) == "Screen " \o screen_id

\* ------------------------------------------------------------------- state
VARIABLES
    conn,             \* transport -> "fresh" | "live" | "closed"
    screens,          \* dict screen_id -> entry
    order,            \* insertion order of the keys of `screens`
    content_layouts,  \* dict screen_id -> document
    dashboard,        \* members of the Socket.IO room 'dashboard'
    now,              \* the wall clock
    uuids,            \* number of uuid4 widget ids drawn so far
    task,             \* the handler that has written and not yet sent, or Idle
    ev,               \* the request being handled in the last step
    out,              \* the Socket.IO messages the last step emitted
    resp              \* the HTTP response of the last step

vars == <<conn, screens, order, content_layouts, dashboard, now, uuids, task, ev, out, resp>>

\* ----------------------------------------------------------- dict helpers
\* screens = {} and content_layouts = {}
EmptyDict == [x \in {} |-> NoneDoc]
DictSet(d, key, v) == [x \in (DOMAIN d) \cup {key} |-> IF x = key THEN v ELSE d[x]]
DictDel(d, key) == [x \in (DOMAIN d) \ {key} |-> d[x]]
DictGet(d, key, default) == IF key \in DOMAIN d THEN d[key] ELSE default

\* Keys are appended to a dict's order on first insertion only.
OrderAdd(o, key) == IF \E i \in 1..Len(o) : o[i] = key THEN o ELSE Append(o, key)
OrderDel(o, key) == SelectSeq(o, LAMBDA x : x # key)

\* ----------------------------------------------------------- transports
Live == {t \in Transports : conn[t] = "live"}

\* Receivers of socketio.emit(..., room=sid): each client is alone in the room
\* named by its own sid (join_room(request.sid) adds nothing to it), and leaves
\* it when it disconnects.
Room(sid, live) == {sid} \cap live

\* Receivers of socketio.emit(..., namespace='/') without a room: every
\* connected client of the namespace.
Broadcast(live) == live

\* One emitted Socket.IO message: its event name, the transports that receive
\* it, and its payload.
Msg(event, to, data) == [event |-> event, to |-> to, data |-> data]
\* One request: the handler it is dispatched to, request.sid (NoSid for a REST
\* call), the identity it names and the document it carries.
Event(op, sid, id, doc) == [op |-> op, sid |-> sid, id |-> id, doc |-> doc]
\* No transport: None.
NoSid == ""
\* The HTTP response of a REST call (status, and the layout a GET returns);
\* NoResp for a Socket.IO event.
NoResp == [status |-> 0, body |-> NoneDoc]
Http(status, body) == [status |-> status, body |-> body]

\* No handler is between its writes and its sends.
Idle == [op |-> "idle", pc |-> "idle", sid |-> NoSid, id |-> NoId, resolution |-> NoResolution]

\* ------------------------------------------------------------------- Init
Init ==
    /\ conn = [t \in Transports |-> "fresh"]
    /\ screens = EmptyDict
    /\ order = <<>>
    /\ content_layouts = EmptyDict
    /\ dashboard = {}
    /\ now = 0
    /\ uuids = 0
    /\ task = Idle
    /\ ev = Event("init", NoSid, NoId, NoneDoc)
    /\ out = <<>>
    /\ resp = NoResp

\* A clock whose advance sweeps the registry and marks every screen stale.
Tick_Evict ==
    /\ now < MaxTime
    /\ now' = now + 1
    /\ screens' = [i \in DOMAIN screens |-> [screens[i] EXCEPT !.connected = FALSE]]
    /\ ev' = Event("tick", NoSid, NoId, NoneDoc)
    /\ out' = <<>>
    /\ resp' = NoResp
    /\ UNCHANGED <<conn, order, content_layouts, dashboard, uuids, task>>

\* The wall clock advances between requests.
Tick ==
    /\ now < MaxTime
    /\ now' = now + 1
    /\ ev' = Event("tick", NoSid, NoId, NoneDoc)
    /\ out' = <<>>
    /\ resp' = NoResp
    /\ UNCHANGED <<conn, screens, order, content_layouts, dashboard, uuids, task>>

\* @socketio.on('connect'): a new client gets a sid; the handler only prints.
handle_connect(t) ==
    /\ conn[t] = "fresh"
    /\ conn' = [conn EXCEPT ![t] = "live"]
    /\ ev' = Event("connect", t, NoId, NoneDoc)
    /\ out' = <<>>
    /\ resp' = NoResp
    /\ UNCHANGED <<screens, order, content_layouts, dashboard, now, uuids, task>>

\* ------------------------------------------------ handle_register_screen
\* data.get('screen_id', str(uuid.uuid4())): the payload's identity, or a
\* fresh uuid4, which is a key of neither table.
RegisterIds(idIn) ==
    IF idIn # NoId THEN {idIn}
    ELSE {i \in IDs : i \notin DOMAIN screens /\ i \notin DOMAIN content_layouts}

\* data.get('resolution', 'Unknown')
ResolutionOf(resIn) == IF resIn = NoResolution THEN "Unknown" ELSE resIn

\* A registration of a known identity that forgets to rebind the transport.
RegisterEntry_KeepSid(scr, screen_id, sid, resolution, t) ==
    IF screen_id \notin DOMAIN scr
    THEN [name |-> DefaultName(screen_id), connected |-> TRUE, last_seen |-> t,
          sid |-> sid, resolution |-> resolution]
    ELSE [scr[screen_id] EXCEPT !.connected = TRUE, !.last_seen = t,
                                !.resolution = resolution]

\* The entry register_screen leaves under screen_id: created for an unseen
\* identity, otherwise connected, last_seen, sid and resolution overwritten.
RegisterEntry(scr, screen_id, sid, resolution, t) ==
    IF screen_id \notin DOMAIN scr
    THEN [name |-> DefaultName(screen_id), connected |-> TRUE, last_seen |-> t,
          sid |-> sid, resolution |-> resolution]
    ELSE [scr[screen_id] EXCEPT !.connected = TRUE, !.last_seen = t,
                                !.sid = sid, !.resolution = resolution]

\* A registration that always installs the default layout.
RegisterLayouts_Reset(cl, scr, screen_id, u) ==
    DictSet(cl, screen_id, get_default_layout(u))

\* content_layouts after register_screen: an unseen identity gets the default
\* layout, whatever was stored under the key before.
RegisterLayouts(cl, scr, screen_id, u) ==
    IF screen_id \notin DOMAIN scr
    THEN DictSet(cl, screen_id, get_default_layout(u))
    ELSE cl

\* Number of get_default_layout() calls of one register_screen: the assignment
\* for an unseen identity, and the eagerly evaluated default of .get().
RegisterUuids(scr, screen_id) == IF screen_id \notin DOMAIN scr THEN 2 ELSE 1

StatusPayload(screen_id, e, resolution) ==
    [id |-> screen_id, name |-> e.name, connected |-> TRUE,
     last_seen |-> e.last_seen, resolution |-> resolution]

handle_register_screen(t, idIn, resIn) ==
    /\ conn[t] = "live"
    /\ \E screen_id \in RegisterIds(idIn) :
        LET resolution == ResolutionOf(resIn)
            k == RegisterUuids(screens, screen_id)
            e == RegisterEntry(screens, screen_id, t, resolution, now)
            cl == RegisterLayouts(content_layouts, screens, screen_id, uuids + 1)
            layout == DictGet(cl, screen_id, get_default_layout(uuids + k))
        IN  /\ uuids + k <= MaxUuid
            /\ screens' = DictSet(screens, screen_id, e)
            /\ order' = OrderAdd(order, screen_id)
            /\ content_layouts' = cl
            /\ uuids' = uuids + k
            /\ out' = << Msg("layout_update", {t}, layout),
                         Msg("screen_status", Broadcast(Live),
                             StatusPayload(screen_id, e, resolution)) >>
            /\ ev' = Event("register_screen", t, screen_id, NoneDoc)
    /\ resp' = NoResp
    /\ UNCHANGED <<conn, dashboard, now, task>>

\* ---------------------------------------------------- handle_disconnect
\* A scan that takes the first entry whatever its sid.
DisconnectMatches_AnySid(scr, o, sid) == o

\* A scan that looks for a connected entry instead of the closing sid.
DisconnectMatches_Connected(scr, o, sid) ==
    SelectSeq(o, LAMBDA i : scr[i].connected)

\* The first key, in dict order, whose entry carries this sid; the loop
\* breaks after it.
DisconnectMatches(scr, o, sid) ==
    SelectSeq(o, LAMBDA i : scr[i].sid = sid)

\* What the handler writes to the matched entry.
MarkDisconnected(e, t) == [e EXCEPT !.connected = FALSE, !.last_seen = t]

DisconnectPayload(screen_id, e) ==
    [id |-> screen_id, connected |-> FALSE, last_seen |-> e.last_seen]

\* A disconnect that drops the entry of the screen that went away.
DisconnectScreens_Forget(scr, screen_id, t) == DictDel(scr, screen_id)

\* A disconnect that marks every entry, not only the matched one.
DisconnectScreens_All(scr, screen_id, t) ==
    [i \in DOMAIN scr |-> MarkDisconnected(scr[i], t)]

\* `screens` after the handler has marked the matched entry.
DisconnectScreens(scr, screen_id, t) ==
    [scr EXCEPT ![screen_id] = MarkDisconnected(scr[screen_id], t)]

handle_disconnect(t) ==
    /\ conn[t] = "live"
    /\ conn' = [conn EXCEPT ![t] = "closed"]
    /\ dashboard' = dashboard \ {t}
    /\ LET m == DisconnectMatches(screens, order, t)
       IN  IF m # <<>>
           THEN LET e == MarkDisconnected(screens[m[1]], now)
                IN  /\ screens' = DisconnectScreens(screens, m[1], now)
                    /\ out' = << Msg("screen_status", Broadcast(Live \ {t}),
                                     DisconnectPayload(m[1], e)) >>
           ELSE /\ screens' = screens
                /\ out' = <<>>
    /\ ev' = Event("disconnect", t, NoId, NoneDoc)
    /\ resp' = NoResp
    /\ UNCHANGED <<order, content_layouts, now, uuids, task>>

\* ----------------------------------------------------- handle_heartbeat
\* A heartbeat handled like a registration without a resolution.
Touch_ResetResolution(e, sid, t) ==
    [e EXCEPT !.last_seen = t, !.connected = TRUE, !.sid = sid, !.resolution = "Unknown"]

\* What a heartbeat writes to a known entry.
Touch(e, sid, t) == [e EXCEPT !.last_seen = t, !.connected = TRUE, !.sid = sid]

\* The status messages a heartbeat emits: none.
HeartbeatOut(screen_id, e) == <<>>

handle_heartbeat(t, idIn) ==
    /\ conn[t] = "live"
    /\ IF TruthyId(idIn) /\ idIn \in DOMAIN screens
       THEN LET e == Touch(screens[idIn], t, now)
            IN  /\ screens' = [screens EXCEPT ![idIn] = e]
                /\ out' = HeartbeatOut(idIn, e)
       ELSE /\ screens' = screens
            /\ out' = <<>>
    /\ ev' = Event("screen_heartbeat", t, idIn, NoneDoc)
    /\ resp' = NoResp
    /\ UNCHANGED <<conn, order, content_layouts, dashboard, now, uuids, task>>

\* ------------------------------------------------ handle_join_dashboard
handle_join_dashboard(t) ==
    /\ conn[t] = "live"
    /\ dashboard' = dashboard \cup {t}
    /\ out' = << Msg("screens_list", {t}, [ids |-> order]) >>
    /\ ev' = Event("join_dashboard", t, NoId, NoneDoc)
    /\ resp' = NoResp
    /\ UNCHANGED <<conn, screens, order, content_layouts, now, uuids, task>>

\* --------------------------------------------------- handle_push_layout
\* `screen_id in screens and screens[screen_id].get('sid')`
HasSid(scr, screen_id) == screen_id \in DOMAIN scr /\ scr[screen_id].sid # NoSid

\* A store that is skipped when the document cannot be delivered.
StoreLayout_OnlyIfConnected(cl, screen_id, layout) ==
    IF screen_id \in DOMAIN screens /\ screens[screen_id].connected
    THEN DictSet(cl, screen_id, layout)
    ELSE cl

\* content_layouts[screen_id] = layout
StoreLayout(cl, screen_id, layout) == DictSet(cl, screen_id, layout)

\* The messages of one push_layout that passed `if screen_id and layout`.
PushOut(scr, live, caller, screen_id, layout) ==
    IF HasSid(scr, screen_id)
    THEN << Msg("layout_update", Room(scr[screen_id].sid, live), layout),
            Msg("push_success", {caller}, [screen_id |-> screen_id]) >>
    ELSE << Msg("push_error", {caller},
                [screen_id |-> screen_id, error |-> "Screen not connected"]) >>

handle_push_layout(t, idIn, layout) ==
    /\ conn[t] = "live"
    /\ IF TruthyId(idIn) /\ TruthyDoc(layout)
       THEN /\ content_layouts' = StoreLayout(content_layouts, idIn, layout)
            /\ out' = PushOut(screens, Live, t, idIn, layout)
       ELSE /\ content_layouts' = content_layouts
            /\ out' = <<>>
    /\ ev' = Event("push_layout", t, idIn, layout)
    /\ resp' = NoResp
    /\ UNCHANGED <<conn, screens, order, dashboard, now, uuids, task>>

\* ------------------------------------------------ handle_refresh_screen
handle_refresh_screen(t, idIn) ==
    /\ conn[t] = "live"
    /\ out' = IF TruthyId(idIn) /\ HasSid(screens, idIn)
              THEN << Msg("refresh", Room(screens[idIn].sid, Live), NoneDoc) >>
              ELSE <<>>
    /\ ev' = Event("refresh_screen", t, idIn, NoneDoc)
    /\ resp' = NoResp
    /\ UNCHANGED <<conn, screens, order, content_layouts, dashboard, now, uuids, task>>

\* ------------------------------------------------------------ REST: PUT
\* PUT /api/screens/<screen_id>: rename.
update_screen(screen_id, nameIn) ==
    /\ IF screen_id \notin DOMAIN screens
       THEN /\ resp' = Http(404, NoneDoc)
            /\ screens' = screens
       ELSE /\ resp' = Http(200, NoneDoc)
            /\ screens' = IF nameIn # NoName
                          THEN [screens EXCEPT ![screen_id].name = nameIn]
                          ELSE screens
    /\ ev' = Event("update_screen", NoSid, screen_id, NoneDoc)
    /\ out' = <<>>
    /\ UNCHANGED <<conn, order, content_layouts, dashboard, now, uuids, task>>

\* --------------------------------------------------------- REST: DELETE
\* A delete that leaves the layout behind.
DeleteLayout_Keep(cl, screen_id) == cl

\* del content_layouts[screen_id], if the key is there.
DeleteLayout(cl, screen_id) == DictDel(cl, screen_id)

delete_screen(screen_id) ==
    /\ IF screen_id \notin DOMAIN screens
       THEN /\ resp' = Http(404, NoneDoc)
            /\ UNCHANGED <<screens, order, content_layouts>>
            /\ out' = <<>>
       ELSE /\ resp' = Http(200, NoneDoc)
            /\ screens' = DictDel(screens, screen_id)
            /\ order' = OrderDel(order, screen_id)
            /\ content_layouts' = DeleteLayout(content_layouts, screen_id)
            /\ out' = << Msg("screen_deleted", Broadcast(Live), [id |-> screen_id]) >>
    /\ ev' = Event("delete_screen", NoSid, screen_id, NoneDoc)
    /\ UNCHANGED <<conn, dashboard, now, uuids, task>>

\* ------------------------------------------------------ REST: GET layout
\* content_layouts.get(screen_id, get_default_layout()), the default built
\* with widget id u.
GetLayoutResult(cl, screen_id, u) == DictGet(cl, screen_id, get_default_layout(u))

get_layout(screen_id) ==
    /\ uuids + 1 <= MaxUuid
    /\ uuids' = uuids + 1
    /\ resp' = Http(200, GetLayoutResult(content_layouts, screen_id, uuids + 1))
    /\ ev' = Event("get_layout", NoSid, screen_id, NoneDoc)
    /\ out' = <<>>
    /\ UNCHANGED <<conn, screens, order, content_layouts, dashboard, now, task>>

\* ------------------------------------------------------ REST: PUT layout
update_layout(screen_id, data) ==
    /\ content_layouts' = StoreLayout(content_layouts, screen_id, data)
    /\ out' = IF HasSid(screens, screen_id)
              THEN << Msg("layout_update", Room(screens[screen_id].sid, Live), data) >>
              ELSE <<>>
    /\ resp' = Http(200, NoneDoc)
    /\ ev' = Event("update_layout", NoSid, screen_id, data)
    /\ UNCHANGED <<conn, screens, order, dashboard, now, uuids, task>>

\* ------------------------------------------------------------------- Next
\* One step of the server: any handler, on inputs drawn from the given sets
\* (T transports, TD the transports of dashboard pages, I identities of
\* Socket.IO payloads, IR identities of REST paths, R resolutions, N names,
\* DP documents of a push_layout payload, DR bodies of a PUT .../layout).
NextOn(T, TD, I, IR, R, N, DP, DR) ==
    \/ Tick
    \/ \E t \in T : handle_connect(t)
    \/ \E t \in T : handle_disconnect(t)
    \/ \E t \in T, i \in I, r \in R \cup {NoResolution} : handle_register_screen(t, i, r)
    \/ \E t \in T, i \in I : handle_heartbeat(t, i)
    \/ \E t \in TD : handle_join_dashboard(t)
    \/ \E t \in T, i \in I, d \in DP : handle_push_layout(t, i, d)
    \/ \E t \in T, i \in I : handle_refresh_screen(t, i)
    \/ \E i \in IR, n \in N \cup {NoName} : update_screen(i, n)
    \/ \E i \in IR : delete_screen(i)
    \/ \E i \in IR : get_layout(i)
    \/ \E i \in IR, d \in DR : update_layout(i, d)

\* Sessions and liveness: two screens, two transports, one dashboard document.
NextSession == NextOn(Transports, {"t1"}, IDs, IDs, {}, {}, {D1}, {D1})
SpecSession == Init /\ [][NextSession]_vars

\* The layout store: one screen, every kind of document, written by both routes.
NextLayout ==
    NextOn(Transports, {"t1"}, {"S1", NoId}, {"S1"}, {}, {}, PayloadDocs, {D2, NoneDoc})
SpecLayout == Init /\ [][NextLayout]_vars

\* Entry contents: two screens, resolutions and names vary as well.
NextFrame ==
    NextOn(Transports, {"t1"}, IDs, {"S1"}, Resolutions, Names, {NoneDoc}, {D1})
SpecFrame == Init /\ [][NextFrame]_vars

\* ------------------------------------------- handlers in their own steps
\* register_screen and disconnect write the registry first and send
\* afterwards.  Here each is taken apart at its sends, and the scheduler of the
\* worker decides whether another handler may run in between.

\* A worker on operating-system threads: a handler can be suspended anywhere.
Yields_Preemptive(pc) == TRUE

\* Whether the handler suspended before the send `pc` gives up the processor
\* there.  The handlers run as green threads of the one eventlet worker, which
\* switches only at a blocking call; an emit queues its packet and returns.
Yields(pc) == FALSE

\* Another handler may run now.
MayRun == task = Idle \/ (task.pc # "KeyError" /\ Yields(task.pc))

\* handle_register_screen up to join_room: the writes.
register_screen_write(t, idIn, resIn) ==
    /\ task = Idle
    /\ conn[t] = "live"
    /\ \E screen_id \in RegisterIds(idIn) :
        LET resolution == ResolutionOf(resIn)
            e == RegisterEntry(screens, screen_id, t, resolution, now)
            cl == RegisterLayouts(content_layouts, screens, screen_id, uuids + 1)
        IN  /\ uuids + RegisterUuids(screens, screen_id) <= MaxUuid
            /\ screens' = DictSet(screens, screen_id, e)
            /\ order' = OrderAdd(order, screen_id)
            /\ content_layouts' = cl
            /\ uuids' = uuids + (RegisterUuids(screens, screen_id) - 1)
            /\ task' = [op |-> "register_screen", pc |-> "emit_layout_update",
                        sid |-> t, id |-> screen_id, resolution |-> resolution]
            /\ ev' = Event("register_screen", t, screen_id, NoneDoc)
    /\ out' = <<>>
    /\ resp' = NoResp
    /\ UNCHANGED <<conn, dashboard, now>>

\* layout = content_layouts.get(...); emit('layout_update', layout)
register_screen_layout_update ==
    /\ task.op = "register_screen"
    /\ task.pc = "emit_layout_update"
    /\ uuids + 1 <= MaxUuid
    /\ uuids' = uuids + 1
    /\ out' = << Msg("layout_update", {task.sid},
                     DictGet(content_layouts, task.id, get_default_layout(uuids + 1))) >>
    /\ task' = [task EXCEPT !.pc = "emit_screen_status"]
    /\ ev' = Event("register_screen", task.sid, task.id, NoneDoc)
    /\ resp' = NoResp
    /\ UNCHANGED <<conn, screens, order, content_layouts, dashboard, now>>

\* socketio.emit('screen_status', {... screens[screen_id]['name'] ...}): a
\* KeyError when the entry is gone.
register_screen_status ==
    /\ task.op = "register_screen"
    /\ task.pc = "emit_screen_status"
    /\ IF task.id \in DOMAIN screens
       THEN /\ out' = << Msg("screen_status", Broadcast(Live),
                             StatusPayload(task.id, screens[task.id], task.resolution)) >>
            /\ task' = Idle
       ELSE /\ out' = <<>>
            /\ task' = [task EXCEPT !.pc = "KeyError"]
    /\ ev' = Event("register_screen", task.sid, task.id, NoneDoc)
    /\ resp' = NoResp
    /\ UNCHANGED <<conn, screens, order, content_layouts, dashboard, now, uuids>>

\* handle_disconnect up to its emit: the scan and the writes.
disconnect_write(t) ==
    /\ task = Idle
    /\ conn[t] = "live"
    /\ conn' = [conn EXCEPT ![t] = "closed"]
    /\ dashboard' = dashboard \ {t}
    /\ LET m == DisconnectMatches(screens, order, t)
       IN  IF m # <<>>
           THEN /\ screens' = DisconnectScreens(screens, m[1], now)
                /\ task' = [op |-> "disconnect", pc |-> "emit_screen_status",
                            sid |-> t, id |-> m[1], resolution |-> NoResolution]
           ELSE /\ screens' = screens
                /\ task' = Idle
    /\ out' = <<>>
    /\ ev' = Event("disconnect", t, NoId, NoneDoc)
    /\ resp' = NoResp
    /\ UNCHANGED <<order, content_layouts, now, uuids>>

\* socketio.emit('screen_status', {... screens[screen_id]['last_seen']}): a
\* KeyError when the entry is gone.
disconnect_status ==
    /\ task.op = "disconnect"
    /\ task.pc = "emit_screen_status"
    /\ IF task.id \in DOMAIN screens
       THEN /\ out' = << Msg("screen_status", Broadcast(Live),
                             DisconnectPayload(task.id, screens[task.id])) >>
            /\ task' = Idle
       ELSE /\ out' = <<>>
            /\ task' = [task EXCEPT !.pc = "KeyError"]
    /\ ev' = Event("disconnect", task.sid, NoId, NoneDoc)
    /\ resp' = NoResp
    /\ UNCHANGED <<conn, screens, order, content_layouts, dashboard, now, uuids>>

\* The other handlers, run whole whenever the scheduler lets them in.
scheduled_connect(t) == MayRun /\ handle_connect(t)
scheduled_heartbeat(t, idIn) == MayRun /\ handle_heartbeat(t, idIn)
scheduled_update_screen(screen_id, nameIn) == MayRun /\ update_screen(screen_id, nameIn)
scheduled_delete_screen(screen_id) == MayRun /\ delete_screen(screen_id)

\* One screen, two transports, register_screen and disconnect step by step.
NextSteps ==
    \/ Tick
    \/ \E t \in Transports : scheduled_connect(t)
    \/ \E t \in Transports : register_screen_write(t, "S1", NoResolution)
    \/ register_screen_layout_update
    \/ register_screen_status
    \/ \E t \in Transports : disconnect_write(t)
    \/ disconnect_status
    \/ \E t \in Transports : scheduled_heartbeat(t, "S1")
    \/ \E n \in Names \cup {NoName} : scheduled_update_screen("S1", n)
    \/ scheduled_delete_screen("S1")
SpecSteps == Init /\ [][NextSteps]_vars

\* ------------------------------------------------------------- properties
Connected(i) == i \in DOMAIN screens /\ screens[i].connected
MsgsOf(o, event) == SelectSeq(o, LAMBDA m : m.event = event)
StatusFor(o, i) == SelectSeq(o, LAMBDA m : m.event = "screen_status" /\ m.data.id = i)
Delivered(o, event) == \E k \in 1..Len(o) : o[k].event = event /\ o[k].to # {}

\* C1: in every reachable state, every Screen Entry is connected if and only
\* if its stored transport handle (sid) is non-null.
C1_ConnectedIffSid ==
    \A i \in DOMAIN screens : screens[i].connected <=> (screens[i].sid # NoSid)

\* C2: a push_layout carrying an identity and a layout, for an identity whose
\* screen is not connected (never registered, or disconnected), is answered
\* with push_error and never push_success, and no layout_update reaches any
\* connection.
C2_PushToDisconnectedIsError ==
    (ev.op = "push_layout" /\ TruthyId(ev.id) /\ TruthyDoc(ev.doc) /\ ~Connected(ev.id))
        => /\ Len(MsgsOf(out, "push_error")) = 1
           /\ MsgsOf(out, "push_success") = <<>>
           /\ ~Delivered(out, "layout_update")

\* C3: right after every register_screen the entry of the registered identity
\* is connected, its sid is the transport of the registering caller
\* (last-register-wins), and the registry holds exactly one entry for it.
C3_LastRegisterWins ==
    ev.op = "register_screen"
        => /\ ev.id \in DOMAIN screens
           /\ screens[ev.id].connected
           /\ screens[ev.id].sid = ev.sid
           /\ Cardinality({k \in 1..Len(order) : order[k] = ev.id}) = 1
           /\ {order[k] : k \in 1..Len(order)} = DOMAIN screens

\* A known identity (its stored layout is the dashboard's, so this was not its
\* first registration) has just been registered from t2 while t1 is still open.
C3_Witness ==
    /\ ev.op = "register_screen" /\ ev.sid = "t2"
    /\ conn["t1"] = "live"
    /\ ev.id \in DOMAIN content_layouts /\ content_layouts[ev.id] = D1
    /\ screens[ev.id].sid = "t2"

\* C4: a transport is bound to at most one identity: no two distinct Screen
\* Entries carry the same transport as their sid.
C4_TransportBoundOnce ==
    \A i, j \in DOMAIN screens : i # j => screens[i].sid # screens[j].sid

\* C5: every step that flips an entry's connected flag emits exactly one
\* screen_status for that identity, carrying the flag's new value.
C5_TransitionNotifiesOnce ==
    [][\A i \in (DOMAIN screens) \cap (DOMAIN screens') :
          screens[i].connected # screens'[i].connected
              => /\ Len(StatusFor(out', i)) = 1
                 /\ StatusFor(out', i)[1].data.connected = screens'[i].connected]_vars

\* The parts of the server's tables a heartbeat for identity i must leave alone
\* whatever is claimed about the sid: name and resolution of i, every other
\* entry, the set and order of identities, and all layouts.
HeartbeatFrame(i) ==
    /\ DOMAIN screens' = DOMAIN screens
    /\ order' = order
    /\ content_layouts' = content_layouts
    /\ screens'[i].name = screens[i].name
    /\ screens'[i].resolution = screens[i].resolution
    /\ \A j \in DOMAIN screens : j # i => screens'[j] = screens[j]

C7_StoredDespiteNoDelivery ==
    (/\ \/ ev.op = "push_layout" /\ TruthyId(ev.id) /\ TruthyDoc(ev.doc)
        \/ ev.op = "update_layout"
     /\ ~Connected(ev.id))
        => /\ ev.id \in DOMAIN content_layouts
           /\ content_layouts[ev.id] = ev.doc
           /\ GetLayoutResult(content_layouts, ev.id, uuids + 1) = ev.doc

\* D1 was pushed to a registered screen whose transport is closed: nothing was
\* delivered, and D1 is stored.
C7_Witness ==
    /\ ev.op = "push_layout" /\ ev.id = "S1" /\ ev.doc = D1
    /\ "S1" \in DOMAIN screens /\ ~screens["S1"].connected
    /\ ~Delivered(out, "layout_update")
    /\ content_layouts["S1"] = D1

\* C8: the stored document of an identity changes only in a step that puts a
\* document for it (push_layout, PUT .../layout) or removes it (DELETE).
C8_OnlyPutOrRemoveChangesLayout ==
    [][\A i \in DOMAIN content_layouts :
          ~(ev'.id = i /\ ev'.op \in {"push_layout", "update_layout", "delete_screen"})
              => /\ i \in DOMAIN content_layouts'
                 /\ content_layouts'[i] = content_layouts[i]]_vars

\* C9: DELETE of a known identity removes its entry and its layout in the same
\* step, so that get_layout then returns a fresh default document, different
\* from the document stored before; DELETE of an unknown identity answers 404
\* and changes nothing.  A get_layout that directly follows a successful DELETE
\* of the same identity returns that fresh default.
C9_RemoveDeletesEntryAndLayout ==
    [][/\ ev'.op = "delete_screen" =>
            IF ev'.id \in DOMAIN screens
            THEN /\ resp'.status = 200
                 /\ ev'.id \notin DOMAIN screens'
                 /\ ev'.id \notin DOMAIN content_layouts'
                 /\ GetLayoutResult(content_layouts', ev'.id, uuids' + 1)
                        = get_default_layout(uuids' + 1)
                 /\ \A j \in DOMAIN content_layouts :
                        GetLayoutResult(content_layouts', ev'.id, uuids' + 1)
                            # content_layouts[j]
            ELSE /\ resp'.status = 404
                 /\ UNCHANGED <<screens, order, content_layouts>>
                 /\ out' = <<>>
       /\ (/\ ev.op = "delete_screen" /\ resp.status = 200
           /\ ev'.op = "get_layout" /\ ev'.id = ev.id)
            => /\ resp'.body = get_default_layout(uuids + 1)
               /\ ev'.id \notin DOMAIN content_layouts']_vars

\* A registered screen has just been deleted: neither table holds the identity
\* any more, and the deletion was announced.
C9_Witness ==
    /\ ev.op = "delete_screen" /\ ev.id = "S1" /\ resp.status = 200
    /\ "S1" \notin DOMAIN screens /\ "S1" \notin DOMAIN content_layouts
    /\ Len(MsgsOf(out, "screen_deleted")) = 1
    /\ uuids >= 2

\* C10: a screen_heartbeat naming an unknown identity, and the disconnect of a
\* transport that no entry carries as its sid, change neither the registry nor
\* the layout store, create no entry and emit nothing.
C10_UnknownIsNoOp ==
    [][(\/ ev'.op = "screen_heartbeat" /\ ev'.id \notin DOMAIN screens
        \/ ev'.op = "disconnect" /\ \A i \in DOMAIN screens : screens[i].sid # ev'.sid)
          => /\ UNCHANGED <<screens, order, content_layouts>>
             /\ out' = <<>>]_vars

\* A transport that is bound to no entry has disconnected while a screen is
\* registered and connected on the other transport.
C10_Witness ==
    /\ ev.op = "disconnect" /\ ev.sid = "t1"
    /\ out = <<>>
    /\ \E i \in DOMAIN screens : screens[i].connected /\ screens[i].sid = "t2"

\* C11: every identity of the registry has exactly one layout document, and
\* that document is never null.
C11_EntryHasNonNullLayout ==
    \A i \in DOMAIN screens :
        i \in DOMAIN content_layouts /\ content_layouts[i] # NoneDoc

\* C12: an entry of the registry stays in it through every step other than a
\* successful DELETE /api/screens/<id> of its own identity.
C12_OnlyRemoveDeletesEntry ==
    [][\A i \in DOMAIN screens :
          i \notin DOMAIN screens'
              => ev'.op = "delete_screen" /\ ev'.id = i /\ resp'.status = 200]_vars

\* An entry that went through a disconnect and is still there for a later
\* refresh_screen.
C12_Witness ==
    /\ ev.op = "refresh_screen"
    /\ ev.id = "S1"
    /\ "S1" \in DOMAIN screens
    /\ ~screens["S1"].connected

\* C13: the connected flag of an entry changes from true to false only in a
\* step that handles a transport disconnect.
C13_OnlyDisconnectClearsConnected ==
    [][\A i \in DOMAIN screens \cap DOMAIN screens' :
          (screens[i].connected /\ ~screens'[i].connected)
              => ev'.op = "disconnect"]_vars

\* A disconnect has just cleared one screen's flag while the other screen is
\* still connected.
C13_Witness ==
    /\ ev.op = "disconnect"
    /\ DOMAIN screens = IDs
    /\ screens["S1"].sid = ev.sid
    /\ ~screens["S1"].connected
    /\ screens["S2"].connected
    /\ Len(StatusFor(out, "S1")) = 1

\* C14: register_screen answers the registering connection with one
\* layout_update: the default layout for an identity that has no entry, the
\* stored document for an identity that has one, whose stored document the
\* registration leaves as it was.
C14_RegisterRepliesCurrentLayout ==
    [][ev'.op = "register_screen"
          => LET i == ev'.id
                 lu == MsgsOf(out', "layout_update")
             IN  /\ Len(lu) = 1
                 /\ lu[1].to = {ev'.sid}
                 /\ IF i \in DOMAIN screens
                    THEN /\ content_layouts' = content_layouts
                         /\ lu[1].data = content_layouts[i]
                    ELSE /\ lu[1].data.k = "default"
                         /\ content_layouts'[i] = lu[1].data]_vars

\* A known identity registers again after a document was stored for it, and
\* is answered with that document.
C14_Witness ==
    /\ ev.op = "register_screen"
    /\ ev.id = "S1"
    /\ content_layouts["S1"] = D2
    /\ Len(MsgsOf(out, "layout_update")) = 1
    /\ MsgsOf(out, "layout_update")[1].data = D2
    /\ MsgsOf(out, "layout_update")[1].to = {ev.sid}

\* C15: whenever a push_layout or a PUT .../layout for an identity emits a
\* layout_update, the message goes to exactly one connection, the one the
\* identity's entry is bound to, carries the pushed document, reaches no
\* connection that another identity is bound to, and a push_layout caller is
\* answered with push_success.
C15_PushReachesExactlyTheScreen ==
    (ev.op \in {"push_layout", "update_layout"} /\ MsgsOf(out, "layout_update") # <<>>)
        => LET lu == MsgsOf(out, "layout_update")
           IN  /\ Len(lu) = 1
               /\ lu[1].to = {screens[ev.id].sid}
               /\ lu[1].data = ev.doc
               /\ \A j \in DOMAIN screens \ {ev.id} : screens[j].sid \notin lu[1].to
               /\ ev.op = "push_layout"
                    => /\ Len(MsgsOf(out, "push_success")) = 1
                       /\ MsgsOf(out, "push_success")[1].to = {ev.sid}

\* C16: every screen_status and every screen_deleted message is delivered to
\* exactly the connections that have joined the dashboard and are still open.
C16_FanOutToDashboardOnly ==
    \A k \in 1..Len(out) :
        out[k].event \in {"screen_status", "screen_deleted"} => out[k].to = dashboard

\* C17: a push_layout without an identity or without a layout changes neither
\* the registry nor the layout store and emits nothing.
C17_MalformedPushIsDropped ==
    [][(ev'.op = "push_layout" /\ (ev'.id = NoId \/ ev'.doc = NoneDoc))
          => /\ UNCHANGED <<screens, order, content_layouts>>
             /\ out' = <<>>]_vars

\* A push_layout without a layout for a connected screen has been handled and
\* the screen still has its default layout.
C17_Witness ==
    /\ ev.op = "push_layout"
    /\ ev.id = "S1"
    /\ ev.doc = NoneDoc
    /\ Connected("S1")
    /\ content_layouts["S1"].k = "default"
    /\ out = <<>>

\* The entry and the layout of identity y are the same before and after the
\* step.
SameScreen(y) ==
    /\ (y \in DOMAIN screens) <=> (y \in DOMAIN screens')
    /\ y \in DOMAIN screens => screens'[y] = screens[y]
    /\ (y \in DOMAIN content_layouts) <=> (y \in DOMAIN content_layouts')
    /\ y \in DOMAIN content_layouts => content_layouts'[y] = content_layouts[y]

\* C18: a register_screen, heartbeat, push_layout or refresh_screen naming an
\* identity, and a disconnect of a transport, leave the entry and the layout
\* of every other identity (for a disconnect: of every identity not bound to
\* the closing transport) unchanged.
C18_OtherScreensUntouched ==
    [][/\ ev'.op \in {"register_screen", "screen_heartbeat", "push_layout", "refresh_screen"}
          => \A y \in IDs \ {ev'.id} : SameScreen(y)
       /\ ev'.op = "disconnect"
          => \A y \in IDs :
                (y \notin DOMAIN screens \/ screens[y].sid # ev'.sid) => SameScreen(y)]_vars

\* A heartbeat for S1 has been handled while S2, bound to another transport,
\* is registered and disconnected.
C18_Witness ==
    /\ ev.op = "screen_heartbeat"
    /\ ev.id = "S1"
    /\ DOMAIN screens = IDs
    /\ screens["S1"].sid = ev.sid
    /\ screens["S2"].sid # ev.sid
    /\ ~screens["S2"].connected

\* C19: the disconnect of a transport that an entry is not bound to leaves the
\* entry as it is and emits no screen_status for it; an entry is marked
\* disconnected only by the disconnect of the transport it is bound to.
C19_StaleDisconnectIsIgnored ==
    [][\A i \in DOMAIN screens :
          /\ (ev'.op = "disconnect" /\ screens[i].sid # ev'.sid)
                => /\ i \in DOMAIN screens'
                   /\ screens'[i] = screens[i]
                   /\ StatusFor(out', i) = <<>>
          /\ (i \in DOMAIN screens' /\ screens[i].connected /\ ~screens'[i].connected)
                => ev'.op = "disconnect" /\ ev'.sid = screens[i].sid]_vars

\* Transport t1 has closed while S1, registered more than once, is connected
\* on t2: nothing was emitted and S1 stays connected.
C19_Witness ==
    /\ ev.op = "disconnect"
    /\ ev.sid = "t1"
    /\ out = <<>>
    /\ DOMAIN screens = {"S1"}
    /\ screens["S1"].connected
    /\ screens["S1"].sid = "t2"
    /\ uuids >= 3

====
